---------------------------- MODULE Spec2Model ----------------------------
(***************************************************************************)
(* A model of nr-find-lib.js: the scan that checks an api key, pages       *)
(* through the list of services, looks every service (or every account)    *)
(* up for a library and writes the findings.                               *)
(*                                                                         *)
(* The script is one thread of control that is suspended at every          *)
(* `await nerdgraphQuery(...)`.  A step of the model is what runs between  *)
(* two suspensions: the arrival of one https response (or error) and       *)
(* everything the script does with it, up to and including the sending of  *)
(* the next request.  The remote API is the environment: what it answers   *)
(* is chosen with \E from the small sets defined below.                    *)
(*                                                                         *)
(* JavaScript objects are functions from property names to values; a       *)
(* property that was never assigned is not in the DOMAIN.                  *)
(***************************************************************************)
EXTENDS Integers, Sequences, FiniteSets, TLC

VARIABLES
    pc,            \* where the script is suspended, or how it ended
    exitCode,      \* the exit status of the process once it has ended
    argv,          \* process.argv: the command-line switches the script has read so far
    accountIds,    \* state.accountIds
    applications,  \* state.applications: guid -> service record
    appOrder,      \* the keys of state.applications in insertion order
    call,          \* the nerdgraphQuery call in progress: query, variables,
                   \* requests sent (attempt), what each answered (tried)
    todo,          \* findModulesByEntity: the keys of Object.values(state.applications)
    progress,      \* the loop counter `progress` of the enrichment strategy
    written,       \* the lists writeResults handed to the file writer
    logged,        \* the diagnostics written during the last step
    last,          \* history: the last finished nerdgraphQuery call and its result
    calls,         \* history: number of nerdgraphQuery calls for the list of services,
                   \* without and with a cursor
    pagesSeen,     \* history: list-entities pages received with data
    guidsSeen,     \* history: the non-empty guids on those pages
    lookedUp,      \* history: the guids of the per-entity lookups issued, in order
    evidence,      \* history: guid -> what its own lookup returned (LookupDigest)
    firstPages,    \* history: accounts whose first-page lookup was issued, in order
    acctCursors,   \* history: account-lookup pages processed that carried a nextCursor
    props          \* the other properties of `state`: libraryName, region, apiKey,
                   \* scanStarted, scanCompleted, scanDurationSec

vars == <<pc, exitCode, argv, accountIds, applications, appOrder, call, todo,
          progress, written, logged, last, calls, pagesSeen, guidsSeen,
          lookedUp, evidence, firstPages, acctCursors, props>>

-----------------------------------------------------------------------------
(* Bounds of the model *)

\* the API answers the list of services with at most this many pages, and
\* hands out fewer than this many cursors over the accounts of a run
MaxPages == 2
\* at most this many entities on a list-entities page
MaxPageLen == 2
\* at most this many accounts are accessible to the key
MaxAccounts == 2

-----------------------------------------------------------------------------
(* JavaScript values *)

\* null or undefined where a string is expected
Null == "null"

\* what nerdgraphQuery returns when it has no data (line 571)
Undefined == [t |-> "undefined"]

\* JavaScript truthiness of a string-valued (or null) property
Truthy(v) == v \notin {Null, ""}

\* obj[k] = v
Put(obj, k, v) == [x \in DOMAIN obj \cup {k} |-> IF x = k THEN v ELSE obj[x]]

\* obj has the property k
Has(obj, k) == k \in DOMAIN obj

\* all sequences over S of length at most n
SeqsUpTo(S, n) == UNION {[1..k -> S] : k \in 0..n}

\* numbers as JavaScript has them: a number or NaN
Num(n) == [t |-> "num", v |-> n]
NaN == [t |-> "NaN"]
NoNum == [t |-> "undefined"]
TruthyNum(x) == x.t = "num" /\ x.v # 0

\* a JavaScript object without any of the properties the script reads
EmptyObject == [typename |-> "Object"]

\* null where an object is expected: reading a property of it is a TypeError
NullObject == [typename |-> "null"]

-----------------------------------------------------------------------------
(* The state of the script as one record, so that the sequential code of a  *)
(* handler can be written as a composition of operators on it.              *)

State ==
    [pc |-> pc, exitCode |-> exitCode, argv |-> argv, accountIds |-> accountIds,
     applications |-> applications, appOrder |-> appOrder, call |-> call,
     todo |-> todo, progress |-> progress, written |-> written,
     logged |-> logged, last |-> last, calls |-> calls,
     pagesSeen |-> pagesSeen, guidsSeen |-> guidsSeen, lookedUp |-> lookedUp,
     evidence |-> evidence, firstPages |-> firstPages, acctCursors |-> acctCursors,
     props |-> props]

Become(s) ==
    /\ pc' = s.pc
    /\ exitCode' = s.exitCode
    /\ argv' = s.argv
    /\ accountIds' = s.accountIds
    /\ applications' = s.applications
    /\ appOrder' = s.appOrder
    /\ call' = s.call
    /\ todo' = s.todo
    /\ progress' = s.progress
    /\ written' = s.written
    /\ logged' = s.logged
    /\ last' = s.last
    /\ calls' = s.calls
    /\ pagesSeen' = s.pagesSeen
    /\ guidsSeen' = s.guidsSeen
    /\ lookedUp' = s.lookedUp
    /\ evidence' = s.evidence
    /\ firstPages' = s.firstPages
    /\ acctCursors' = s.acctCursors
    /\ props' = s.props

Queries == {"accessibleAccounts", "getServices", "getMoreServices",
            "getModulesInEntity", "getModulesInAccount", "getMoreModulesInAccount"}

NoCall == [query |-> "none", variables |-> EmptyObject, attempt |-> 0, tried |-> <<>>]

\* process.stdout.write / process.stderr.write of a diagnostic
Log(s, line) == [s EXCEPT !.logged = Append(@, line)]

\* the script keeps waiting: something is left open
LeftOpen(s) == [s EXCEPT !.pc = "open"]

\* the script runs off its end: nothing is pending, the process ends with status 0
Finish(s) == [s EXCEPT !.pc = "done", !.exitCode = 0]

\* process.exit(code)
Exit(s, code) == [s EXCEPT !.pc = "exited", !.exitCode = code]

\* an exception nobody catches: thrown in an event handler, or the rejection of
\* the promise of the readline callback.  code is the status the process ends with.
Uncaught(s, code) == [s EXCEPT !.pc = "uncaught", !.exitCode = code]

-----------------------------------------------------------------------------
(* Transport: nerdgraphQuery, handleNetworkError, buildRequestPromise *)

\* err.code of the certificate errors handleNetworkError looks for
DepthZeroSelfSignedCert == 18
SelfSignedCertInChain == 19
\* the status handleNetworkError exits with
CertExitStatus == 5
\* the status requestApiKey exits with
KeyExitStatus == 1

\* errString.includes("self signed certificate")
IncludesSelfSigned(text) == text = "Error: self signed certificate in certificate chain"

\* the errors a request may fail with: err.code (0 for any other code) and
\* err.toString()
Errors ==
    {[code |-> DepthZeroSelfSignedCert, text |-> "Error: socket hang up"],
     [code |-> SelfSignedCertInChain, text |-> "Error: socket hang up"],
     [code |-> 0, text |-> "Error: self signed certificate in certificate chain"],
     [code |-> 0, text |-> "Error: socket hang up"]}

\* handleNetworkError(err): "exit" when err is a certificate error, else "continue"
IgnoreCertError(err) == "continue"
HandleNetworkError(err) ==
    IF \/ err.code = DepthZeroSelfSignedCert
       \/ err.code = SelfSignedCertInChain
       \/ IncludesSelfSigned(err.text)
    THEN "exit"
    ELSE "continue"

\* What one https exchange does to the promise of buildRequestPromise.
\*   reply.kind = "error":   req.on('error') rejects the promise with reply.err
\*   reply.kind = "body":    res.on('end') resolves it with JSON.parse(body),
\*                           reply.response being the parsed object
\*   reply.kind = "garbage": the body is not JSON; JSON.parse throws inside the
\*                           'end' event handler, outside of the promise's
\*                           executor, so the promise is never settled and the
\*                           exception is uncaught
BuildRequestPromise(reply) ==
    CASE reply.kind = "error" -> [settled |-> "rejected", err |-> reply.err]
      [] reply.kind = "body" -> [settled |-> "resolved", response |-> reply.response]
      [] OTHER -> [settled |-> "thrown"]

\* the name under which an attempt's outcome is recorded in call.tried:
\*   "certificate"  the request failed with a certificate error
\*   "garbage"      the body was not JSON
\*   "data"         the response had data
\*   "failed"       the request failed with another error, or the response had no data
CertificateErrors ==
    {e \in Errors : \/ e.code \in {DepthZeroSelfSignedCert, SelfSignedCertInChain}
                    \/ IncludesSelfSigned(e.text)}
OutcomeOf(reply) ==
    CASE reply.kind = "error" ->
            IF reply.err \in CertificateErrors THEN "certificate" ELSE "failed"
      [] reply.kind = "garbage" -> "garbage"
      [] OTHER -> IF Has(reply.response, "data") THEN "data" ELSE "failed"

\* a nerdgraphQuery that gives up after its first request
NerdgraphQueryNoRetry(attempt, reply) ==
    LET p == BuildRequestPromise(reply) IN
    CASE p.settled = "thrown" -> [do |-> "throw"]
      [] p.settled = "rejected" ->
            IF HandleNetworkError(p.err) = "exit" THEN [do |-> "exit"]
            ELSE [do |-> "return", value |-> Undefined]
      [] OTHER ->
            IF Has(p.response, "data") THEN [do |-> "return", value |-> p.response.data]
            ELSE [do |-> "return", value |-> Undefined]

\* a nerdgraphQuery that takes errors in the first response for a failure
RetryOnErrors(attempt, reply) ==
    LET p == BuildRequestPromise(reply) IN
    CASE p.settled = "thrown" -> [do |-> "throw"]
      [] p.settled = "rejected" ->
            IF HandleNetworkError(p.err) = "exit" THEN [do |-> "exit"]
            ELSE IF attempt = 1 THEN [do |-> "retry"]
            ELSE [do |-> "return", value |-> Undefined]
      [] OTHER ->
            IF attempt = 1 /\ Has(p.response, "errors") THEN [do |-> "retry"]
            ELSE IF Has(p.response, "data") THEN [do |-> "return", value |-> p.response.data]
            ELSE IF attempt = 1 THEN [do |-> "retry"]
            ELSE [do |-> "return", value |-> Undefined]

\* nerdgraphQuery, from the point where the promise of attempt number `attempt`
\* settles: what the function does next.
\*   [do |-> "return", value |-> v]  it returns v to its caller
\*   [do |-> "retry"]                it builds the second request
\*   [do |-> "exit"]                 handleNetworkError ended the process
\*   [do |-> "throw"]                the uncaught exception of the 'end' handler
NerdgraphQuery(attempt, reply) ==
    LET p == BuildRequestPromise(reply) IN
    CASE p.settled = "thrown" -> [do |-> "throw"]
      [] p.settled = "rejected" ->
            IF HandleNetworkError(p.err) = "exit" THEN [do |-> "exit"]
            ELSE IF attempt = 1 THEN [do |-> "retry"]
            ELSE [do |-> "return", value |-> Undefined]
      [] OTHER ->
            IF Has(p.response, "data") THEN [do |-> "return", value |-> p.response.data]
            ELSE IF attempt = 1 THEN [do |-> "retry"]
            ELSE [do |-> "return", value |-> Undefined]

\* the diagnostics nerdgraphQuery and handleNetworkError write for one attempt
TransportLog(attempt, reply) ==
    CASE reply.kind = "error" ->
            IF HandleNetworkError(reply.err) = "exit" THEN <<<<"CERT_ERROR_HELP">>>>
            ELSE <<<<"Exception processing API call">>>>
      [] reply.kind = "body" /\ Has(reply.response, "errors") /\ attempt = 1 ->
            <<<<"Error returned from API">>>>
      [] OTHER -> <<>>

\* a call of nerdgraphQuery: buildRequestPromise sends the first request
Issue(s, q, v) ==
    [s EXCEPT !.call = [query |-> q, variables |-> v, attempt |-> 1, tried |-> <<>>],
              !.calls = CASE q = "getServices" -> [@ EXCEPT !.first = @ + 1]
                          [] q = "getMoreServices" -> [@ EXCEPT !.more = @ + 1]
                          [] OTHER -> @]

\* the requests of the call in progress that have not been answered
Outstanding == IF pc \in {"done", "exited", "uncaught", "requestApiKey"} THEN 0
               ELSE call.attempt - Len(call.tried)

-----------------------------------------------------------------------------
(* What the remote API may answer *)

\* accessibleAccounts: the accounts 1..k of the key in ascending or descending
\* order, or an object without `actor`
AccountsData ==
    {[actor |-> [accounts |-> [i \in DOMAIN ids |-> [id |-> ids[i]]]]] :
        ids \in {q \in SeqsUpTo(1..MaxAccounts, MaxAccounts) :
                    \/ \A i \in DOMAIN q : q[i] = i
                    \/ \A i \in DOMAIN q : q[i] = Len(q) + 1 - i}}
    \cup {EmptyObject}

\* truthy and falsy values of nextCursor
Cursors == {"c1", "c2"}
NoCursors == {Null, ""}

\* the entities entitySearch may list; the guid of the last one is empty
Entities ==
    {[guid |-> "gA", name |-> <<"svcA">>, accountId |-> 1, applicationId |-> Num(11)],
     [guid |-> "gA", name |-> <<"svcA2">>, accountId |-> 2, applicationId |-> Num(12)],
     [guid |-> "gB", name |-> <<"svcB">>, accountId |-> 1, applicationId |-> Num(13)],
     [guid |-> "", name |-> <<"svcX">>, accountId |-> 2, applicationId |-> Num(14)]}

\* getServices / getMoreServices: a page of entities and maybe a cursor, or an
\* object in which `actor` or `results` is missing.  The API hands out a
\* cursor on fewer than MaxPages pages.
ServicesData(seen) ==
    {[actor |-> [entitySearch |-> [results |-> [entities |-> es, nextCursor |-> c]]]] :
        es \in SeqsUpTo(Entities, MaxPageLen),
        c \in NoCursors \cup (IF seen + 1 < MaxPages THEN Cursors ELSE {})}
    \cup {EmptyObject, [actor |-> [entitySearch |-> EmptyObject]]}

\* the modules an agent may report: with both checksums, with a sha1 and an
\* empty sha512, and without attributes
ModuleA ==
    [name |-> "log4j-core", version |-> "2.14.1",
     attributes |-> <<[name |-> "sha1Checksum", value |-> "sha1-a"],
                      [name |-> "sha512Checksum", value |-> "sha512-a"],
                      [name |-> "weaveFile", value |-> "w"]>>]
ModuleB ==
    [name |-> "log4j-core-b", version |-> "2.17.0",
     attributes |-> <<[name |-> "sha1Checksum", value |-> "sha1-b"],
                      [name |-> "sha512Checksum", value |-> ""]>>]
ModuleC == [name |-> "log4j-core", version |-> "2.15.0"]

\* runningAgentVersions
SameVersions == [minVersion |-> "7.4.0", maxVersion |-> "7.4.0"]
TwoVersions == [minVersion |-> "7.4.0", maxVersion |-> "7.5.0"]
NoVersions == [minVersion |-> Null, maxVersion |-> ""]

\* actor.entity of a response to getModulesInEntity: the instances (an element
\* is null, has no modules, or lists modules) and maybe the agent versions
LookedUpEntities ==
    {[applicationInstances |-> <<>>],
     [applicationInstances |-> <<EmptyObject, [modules |-> <<>>]>>,
      runningAgentVersions |-> SameVersions],
     [applicationInstances |-> <<[modules |-> <<ModuleA>>]>>,
      runningAgentVersions |-> TwoVersions],
     [applicationInstances |-> <<[modules |-> <<ModuleA>>], [modules |-> <<ModuleB>>]>>],
     [applicationInstances |-> <<[modules |-> <<ModuleB, ModuleC>>]>>,
      runningAgentVersions |-> NoVersions],
     [applicationInstances |-> <<NullObject, [modules |-> <<ModuleA>>]>>,
      runningAgentVersions |-> TwoVersions],
     [applicationInstances |-> <<[modules |-> <<ModuleB, NullObject>>]>>]}

\* getModulesInEntity: the entity, or an object in which actor, entity or
\* applicationInstances is missing
EntityData ==
    {[actor |-> [entity |-> e]] : e \in LookedUpEntities}
    \cup {EmptyObject, [actor |-> EmptyObject],
          [actor |-> [entity |-> [runningAgentVersions |-> SameVersions]]]}

\* the text atob(guid) decodes to, character by character; "gBad" is not
\* base64 and makes atob throw, "gShort" has three fields, the fourth field
\* of "gWord" is no number
Decodable == {"gA", "gB", "gC", "gShort", "gWord"}
Atob(guid) ==
    CASE guid = "gA" -> <<"1", "|", "A", "|", "P", "|", "1", "1">>
      [] guid = "gB" -> <<"1", "|", "A", "|", "P", "|", "1", "3">>
      [] guid = "gC" -> <<"2", "|", "A", "|", "P", "|", "7", "|", "x">>
      [] guid = "gWord" -> <<"2", "|", "A", "|", "P", "|", "x", "7">>
      [] OTHER -> <<"2", "|", "A", "|", "P">>

\* the module groups agentEnvironment.modules may list
HostA == [name |-> <<"java:", "hostA", ":8080">>, host |-> "hostA"]
HostC == [name |-> <<"hostC">>, host |-> "hostC"]
GroupA == [details |-> HostA, loadedModules |-> <<ModuleA>>, applicationGuids |-> <<"gA">>]
GroupC == [details |-> HostC, loadedModules |-> <<ModuleB, ModuleC>>,
           applicationGuids |-> <<"gC", "gBad", "gShort", "gWord">>]
GroupIdle == [details |-> HostA, loadedModules |-> <<>>, applicationGuids |-> <<"gB">>]
GroupNoGuid == [details |-> HostA, loadedModules |-> <<ModuleB>>, applicationGuids |-> <<>>]
GroupGuidless == [details |-> HostA, loadedModules |-> <<ModuleB>>]

\* agentEnvironment.modules.results of a response
ResultLists ==
    {<<>>,
     <<GroupA>>,
     <<GroupC>>,
     <<GroupIdle, GroupNoGuid>>,
     <<GroupGuidless, GroupA>>}

\* getModulesInAccount / getMoreModulesInAccount: a page of module groups and
\* maybe a cursor, or an object in which some level is missing.  The API
\* hands out fewer than MaxPages cursors over the accounts of a run.
AccountData(seen) ==
    {[actor |-> [account |-> [agentEnvironment |-> [modules |->
            [results |-> rs, nextCursor |-> c]]]]] :
        rs \in ResultLists,
        c \in NoCursors \cup (IF seen + 1 < MaxPages THEN Cursors ELSE {})}
    \cup {EmptyObject, [actor |-> [account |-> EmptyObject]]}

\* the data the API sends along with errors: one answer to each query
PartialData ==
    {[actor |-> [accounts |-> <<[id |-> 1], [id |-> 2]>>]],
     [actor |-> [entitySearch |-> [results |->
        [entities |-> <<[guid |-> "gA", name |-> <<"svcA">>, accountId |-> 1,
                         applicationId |-> Num(11)]>>,
         nextCursor |-> Null]]]],
     [actor |-> [entity |-> [applicationInstances |-> <<[modules |-> <<ModuleA>>]>>,
                             runningAgentVersions |-> TwoVersions]]],
     [actor |-> [account |-> [agentEnvironment |-> [modules |->
        [results |-> <<GroupA>>, nextCursor |-> Null]]]]]}

\* the JSON objects a response body may parse to, given the possible values of `data`
Responses(dataSet) ==
    {[data |-> d] : d \in dataSet}
    \cup {[data |-> d, errors |-> "errors"] : d \in dataSet \cap PartialData}
    \cup {[errors |-> "errors"], EmptyObject}

\* the outcomes of one https exchange: the request fails, the body is not
\* JSON, the body is a response without data, or one with data
ErrorReplies == {[kind |-> "error", err |-> e] : e \in Errors}
GarbageReply == [kind |-> "garbage"]
NoDataReplies == {[kind |-> "body", response |-> r] : r \in Responses({})}
DataReplies(dataSet) ==
    {[kind |-> "body", response |-> r] : r \in Responses(dataSet) \ Responses({})}
Replies(dataSet) ==
    ErrorReplies \cup {GarbageReply} \cup NoDataReplies \cup DataReplies(dataSet)

-----------------------------------------------------------------------------
(* Helpers of the script *)

\* a join that keeps a value as often as it is given
ConcatEvery(vals) == SelectSeq(vals, LAMBDA v : v \notin {Null, ""})

\* concatNoneOrMore: the distinct arguments that are not undefined, null or
\* '', in the order given; the comma-joined string is modelled by the
\* sequence of the values joined
RECURSIVE Dedupe(_, _)
Dedupe(vals, acc) ==
    IF vals = <<>> THEN acc
    ELSE Dedupe(Tail(vals),
                IF \E i \in DOMAIN acc : acc[i] = Head(vals) THEN acc
                ELSE Append(acc, Head(vals)))
ConcatNoneOrMore(vals) ==
    Dedupe(SelectSeq(vals, LAMBDA v : v \notin {Null, ""}), <<>>)

\* String.prototype.split("|") on a sequence of characters
RECURSIVE Split(_, _, _)
Split(chars, cur, acc) ==
    IF chars = <<>> THEN Append(acc, cur)
    ELSE IF Head(chars) = "|" THEN Split(Tail(chars), <<>>, Append(acc, cur))
    ELSE Split(Tail(chars), Append(cur, Head(chars)), acc)

Digits == [c \in {"0", "1", "2", "3", "4", "5", "6", "7", "8", "9"} |->
            CASE c = "0" -> 0 [] c = "1" -> 1 [] c = "2" -> 2 [] c = "3" -> 3
              [] c = "4" -> 4 [] c = "5" -> 5 [] c = "6" -> 6 [] c = "7" -> 7
              [] c = "8" -> 8 [] OTHER -> 9]

\* parseInt: the number the leading digits spell, NaN when there are none
RECURSIVE ParseDigits(_, _, _)
ParseDigits(chars, n, any) ==
    IF chars # <<>> /\ Head(chars) \in DOMAIN Digits
    THEN ParseDigits(Tail(chars), 10 * n + Digits[Head(chars)], TRUE)
    ELSE IF any THEN Num(n) ELSE NaN
ParseInt(chars) == ParseDigits(chars, 0, FALSE)

\* getApplicationIdFromGuid
GetApplicationIdFromGuid(guid) ==
    IF ~Truthy(guid) THEN NoNum
    ELSE IF guid \notin Decodable THEN NoNum
    ELSE LET splitString == Split(Atob(guid), <<>>, <<>>) IN
         IF Len(splitString) >= 4 THEN ParseInt(splitString[4]) ELSE NaN

\* the url template of lines 321 and 448
NrUrl(accountId, applicationId) ==
    <<"https://rpm.newrelic.com/accounts/", accountId, "/applications/",
      applicationId, "/environment">>

\* name.replace(/^java:/, '').replace(/:\d+$/, '') on a name given in pieces
Ports == {":8080"}
AppName(name) ==
    LET a == IF name # <<>> /\ Head(name) = "java:" THEN Tail(name) ELSE name
    IN  IF a # <<>> /\ a[Len(a)] \in Ports THEN SubSeq(a, 1, Len(a) - 1) ELSE a

\* an insertion that lists the key once more
InsertAgain(s, guid, record) ==
    [s EXCEPT !.applications = Put(@, guid, record),
              !.appOrder = Append(@, guid)]

\* state.applications[guid] = record: a new key goes to the end of the object
Insert(s, guid, record) ==
    [s EXCEPT !.applications = Put(@, guid, record),
              !.appOrder = IF guid \in DOMAIN s.applications THEN @ ELSE Append(@, guid)]

\* Object.values(state.applications)
Values(s) == [i \in DOMAIN s.appOrder |-> s.applications[s.appOrder[i]]]

-----------------------------------------------------------------------------
(* writeResults *)

\* the filter of line 507
IsVulnerable(a) == Has(a, "library") /\ Truthy(a["library"])

\* a writeResults without the filter
EveryApplication(apps, includeAllApplications) == apps

\* the list writeResults hands to the writer (lines 519 and 530)
ResultList(apps, includeAllApplications) ==
    IF includeAllApplications THEN apps ELSE SelectSeq(apps, IsVulnerable)

\* what Date.now() gives at line 509, in milliseconds after line 268: one
\* time that is not a whole number of seconds
Elapsed == {1500}

\* lines 509-510: Math.ceil of the milliseconds over 1000
ScanCompleted(state, now) ==
    LET completed == Put(state, "scanCompleted", now) IN
    Put(completed, "scanDurationSec",
        (completed.scanCompleted - state.scanStarted + 999) \div 1000)

\* writeResults, then the script runs off its end.  One hand-over stands for
\* the json and the csv file, which get the same list.
WriteResults(s, includeAllApplications) ==
    Finish([s EXCEPT !.argv = Put(@, "allServices", includeAllApplications),
                     !.props = ScanCompleted(@, s.now),
                     !.written = Append(@, ResultList(Values(s), includeAllApplications))])

-----------------------------------------------------------------------------
(* The merge of one module into a record: lines 373-384 and 454-465 *)

RECURSIVE MergeAttributes(_, _)
MergeAttributes(app, attrs) ==
    IF attrs = <<>> THEN app
    ELSE LET at == Head(attrs)
             a1 == IF at.name = "sha1Checksum" /\ Truthy(at.value)
                   THEN Put(app, "librarySha1", at.value) ELSE app
             a2 == IF at.name = "sha512Checksum" /\ Truthy(at.value)
                   THEN Put(a1, "librarySha512", at.value) ELSE a1
         IN  MergeAttributes(a2, Tail(attrs))

\* a merge that writes nothing
KeepRecord(app, module) == app

\* a merge that writes the name of the module over the name of the record
MergeIntoName(app, module) ==
    Put(Put(app, "name", <<module.name>>), "libraryVersion", module.version)

MergeModule(app, module) ==
    LET a1 == Put(Put(app, "library", module.name), "libraryVersion", module.version)
    IN  IF Has(module, "attributes") THEN MergeAttributes(a1, module.attributes) ELSE a1

-----------------------------------------------------------------------------
(* findModulesByEntity *)

\* a loop that stops after the first module of the instance
FirstModuleOnly(app, modules) ==
    IF modules = <<>> THEN [app |-> app, threw |-> FALSE]
    ELSE IF Head(modules) = NullObject THEN [app |-> app, threw |-> TRUE]
    ELSE [app |-> MergeModule(app, Head(modules)), threw |-> FALSE]

\* the loop over instance['modules'] (lines 372-385); a null module is a TypeError
RECURSIVE EntityModules(_, _)
EntityModules(app, modules) ==
    IF modules = <<>> THEN [app |-> app, threw |-> FALSE]
    ELSE IF Head(modules) = NullObject THEN [app |-> app, threw |-> TRUE]
    ELSE EntityModules(MergeModule(app, Head(modules)), Tail(modules))

\* the loop over applicationInstances (lines 369-387); a null instance is a TypeError
RECURSIVE EntityInstances(_, _, _)
EntityInstances(app, instances, instanceCount) ==
    IF instances = <<>> THEN [app |-> app, count |-> instanceCount, threw |-> FALSE]
    ELSE LET instance == Head(instances) IN
         IF instance = NullObject
         THEN [app |-> app, count |-> instanceCount, threw |-> TRUE]
         ELSE IF Has(instance, "modules") /\ Len(instance.modules) > 0
         THEN LET r == EntityModules(app, instance.modules) IN
              IF r.threw THEN [app |-> r.app, count |-> instanceCount + 1, threw |-> TRUE]
              ELSE EntityInstances(r.app, Tail(instances), instanceCount + 1)
         ELSE EntityInstances(app, Tail(instances), instanceCount)

\* the condition of line 362
EntityShape(data) ==
    /\ data # Undefined
    /\ Has(data, "actor")
    /\ Has(data.actor, "entity")
    /\ Has(data.actor.entity, "applicationInstances")

\* no warning at all
NoWarning(app) == <<>>

\* line 392
ShapeWarning(app) ==
    <<<<"Warning: failed to get library list for", app.guid, app.nrUrl>>>>

\* a body that sets the instance count whatever nerdgraphQuery returned
CountZeroInstances(app, data) ==
    [app |-> Put(app, "examinedInstances", 0), log |-> <<>>]

\* a body that counts the instances on top of the count the record has
CountOnTop(app, data) ==
    IF EntityShape(data)
    THEN LET r == EntityInstances(app, data.actor.entity.applicationInstances,
                                  IF Has(app, "examinedInstances")
                                  THEN app.examinedInstances ELSE 0)
         IN  [app |-> Put(r.app, "examinedInstances", r.count), log |-> <<>>]
    ELSE [app |-> app, log |-> <<>>]

\* the body of the try of lines 360-396 once nerdgraphQuery has returned data:
\* the record of the application afterwards, and what was written to stderr
EnrichEntity(app, data) ==
    IF EntityShape(data)
    THEN LET entity == data.actor.entity
             a1 == IF Has(entity, "runningAgentVersions")
                   THEN Put(app, "agentVersion",
                            ConcatNoneOrMore(<<entity.runningAgentVersions.minVersion,
                                               entity.runningAgentVersions.maxVersion>>))
                   ELSE app
             r == EntityInstances(a1, entity.applicationInstances, 0)
         IN  IF r.threw
             THEN [app |-> r.app,
                   log |-> <<<<"Error fetching data for", app.guid>>>>]
             ELSE [app |-> Put(r.app, "examinedInstances", r.count), log |-> <<>>]
    ELSE [app |-> app, log |-> ShapeWarning(app)]

\* the head of the for loop of line 359: the next lookup, or writeResults
EntityLoop(s) ==
    IF s.progress < Len(s.todo)
    THEN LET application == s.applications[s.todo[s.progress + 1]] IN
         [Issue(s, "getModulesInEntity", [entityGuid |-> application.guid])
            EXCEPT !.pc = "findModulesByEntity",
                   !.lookedUp = Append(@, application.guid)]
    ELSE WriteResults(s, s.switches.allServices)

\* the loop over the records taken from the last one to the first
LastRecordFirst(s) ==
    EntityLoop([s EXCEPT !.todo = [i \in DOMAIN s.appOrder |->
                                      s.appOrder[Len(s.appOrder) + 1 - i]],
                         !.progress = 0])

\* findModulesByEntity up to its first await
FindModulesByEntity(s) ==
    EntityLoop([s EXCEPT !.todo = s.appOrder, !.progress = 0])

-----------------------------------------------------------------------------
(* findModulesByAccount *)

\* a record made up without its url
RecordWithoutUrl(accountId, guid, appName) ==
    [accountId |-> accountId, guid |-> guid, name |-> appName,
     applicationId |-> GetApplicationIdFromGuid(guid), nrUrl |-> <<>>]

\* a record made up with an instance count
RecordWithCount(accountId, guid, appName) ==
    Put(RecordWithoutUrl(accountId, guid, appName), "examinedInstances", 1)

\* lines 439-450: the record made up for a guid entitySearch did not list
Synthesize(accountId, guid, appName) ==
    LET applicationId == GetApplicationIdFromGuid(guid) IN
    [accountId |-> accountId, guid |-> guid, name |-> appName,
     applicationId |-> applicationId,
     nrUrl |-> IF TruthyNum(applicationId) THEN NrUrl(accountId, applicationId) ELSE <<>>]

\* the loop over entityGuids (lines 438-466) for one module
RECURSIVE AccountGuids(_, _, _, _, _)
AccountGuids(s, accountId, appName, module, guids) ==
    IF guids = <<>> THEN s
    ELSE LET guid == Head(guids)
             s1 == IF guid \notin DOMAIN s.applications
                   THEN Insert(s, guid, Synthesize(accountId, guid, appName))
                   ELSE s
             s2 == [s1 EXCEPT !.applications[guid] = MergeModule(@, module)]
         IN  AccountGuids(s2, accountId, appName, module, Tail(guids))

\* the loop over result['loadedModules'] (lines 433-467); `for (... of undefined)`
\* is a TypeError
RECURSIVE AccountModules(_, _, _, _, _)
AccountModules(s, accountId, result, appName, modules) ==
    IF modules = <<>> THEN [s |-> s, threw |-> FALSE]
    ELSE LET module == Head(modules)
             noGuids == \/ ~Has(result, "applicationGuids")
                        \/ Len(result.applicationGuids) < 1
             s1 == IF noGuids
                   THEN Log(s, <<"Warning: result w/out a guid found:", appName,
                                 result.details.host, module.name, module.version>>)
                   ELSE s
         IN  IF ~Has(result, "applicationGuids") THEN [s |-> s1, threw |-> TRUE]
             ELSE AccountModules(
                     AccountGuids(s1, accountId, appName, module, result.applicationGuids),
                     accountId, result, appName, Tail(modules))

\* the loop over moduleResults (lines 427-469)
RECURSIVE AccountResults(_, _, _)
AccountResults(s, accountId, results) ==
    IF results = <<>> THEN [s |-> s, threw |-> FALSE]
    ELSE LET result == Head(results) IN
         IF Len(result.loadedModules) > 0
         THEN LET r == AccountModules(s, accountId, result, AppName(result.details.name),
                                      result.loadedModules)
              IN  IF r.threw THEN r ELSE AccountResults(r.s, accountId, Tail(results))
         ELSE AccountResults(s, accountId, Tail(results))

\* the condition of the while of line 425
AccountShape(data) ==
    /\ data # Undefined
    /\ Has(data, "actor")
    /\ Has(data.actor, "account")
    /\ Has(data.actor.account, "agentEnvironment")
    /\ Has(data.actor.account.agentEnvironment, "modules")

\* a cursor that is not the one of the page
StaleCursor(modules) == "c1"

\* line 471
AccountCursor(modules) ==
    IF Has(modules, "nextCursor") THEN modules.nextCursor ELSE Null

\* the head of the for loop of line 418: the first page of the next account, or
\* writeResults
AccountLoop(s) ==
    IF s.progress < Len(s.accountIds)
    THEN LET accountId == s.accountIds[s.progress + 1] IN
         [Issue(s, "getModulesInAccount", [accountId |-> accountId])
            EXCEPT !.pc = "findModulesByAccount",
                   !.progress = @ + 1,
                   !.firstPages = Append(@, accountId)]
    ELSE WriteResults(s, s.switches.allServices)

\* findModulesByAccount up to its first await
FindModulesByAccount(s) == AccountLoop([s EXCEPT !.progress = 0])

\* findModulesByAccount from the return of nerdgraphQuery to the next await
AccountPage(s, data) ==
    LET accountId == s.accountIds[s.progress] IN
    IF AccountShape(data)
    THEN LET modules == data.actor.account.agentEnvironment.modules
             r == AccountResults(s, accountId,
                                 IF Has(modules, "results") THEN modules.results ELSE <<>>)
         IN  IF r.threw
             THEN AccountLoop(Log(r.s, <<"Error fetching data for account", accountId>>))
             ELSE IF Truthy(AccountCursor(modules))
             THEN Issue([r.s EXCEPT !.acctCursors = @ + 1], "getMoreModulesInAccount",
                        [accountId |-> accountId, cursor |-> AccountCursor(modules)])
             ELSE AccountLoop(r.s)
    ELSE AccountLoop(s)

-----------------------------------------------------------------------------
(* findServices *)

\* a loop that inserts every entity, whatever its guid
RECURSIVE MergeWithoutGuidTest(_, _)
MergeWithoutGuidTest(s, entities) ==
    IF entities = <<>> THEN s
    ELSE LET application == Head(entities)
             record == Put(application, "nrUrl",
                           NrUrl(application.accountId, application.applicationId))
         IN  MergeWithoutGuidTest(Insert(s, application.guid, record), Tail(entities))

\* the loop keeping the record a guid already has
RECURSIVE FirstRecordKept(_, _)
FirstRecordKept(s, entities) ==
    IF entities = <<>> THEN s
    ELSE LET application == Head(entities)
             record == Put(application, "nrUrl",
                           NrUrl(application.accountId, application.applicationId))
         IN  FirstRecordKept(IF Truthy(application.guid) /\ ~Has(s.applications, application.guid)
                             THEN Insert(s, application.guid, record) ELSE s,
                             Tail(entities))

\* the loop of lines 319-324 over the entities of a page
RECURSIVE MergeEntities(_, _)
MergeEntities(s, entities) ==
    IF entities = <<>> THEN s
    ELSE LET application == Head(entities)
             record == Put(application, "nrUrl",
                           NrUrl(application.accountId, application.applicationId))
         IN  MergeEntities(IF Truthy(application.guid)
                           THEN Insert(s, application.guid, record) ELSE s,
                           Tail(entities))

\* the account-level scan whatever the command line says
AlwaysQuickScan(s) ==
    FindModulesByAccount([s EXCEPT !.argv = Put(@, "quickScan", s.switches.quickScan)])

\* lines 338-346
SelectStrategy(s) ==
    LET s1 == [s EXCEPT !.argv = Put(@, "quickScan", s.switches.quickScan)] IN
    IF ~s.switches.quickScan THEN FindModulesByEntity(s1) ELSE FindModulesByAccount(s1)

\* resultSet['actor']['entitySearch']['results'] can be read
ServicesShape(data) ==
    /\ Has(data, "actor")
    /\ Has(data.actor, "entitySearch")
    /\ Has(data.actor.entitySearch, "results")

\* a cursor that is not the one of the page
FirstCursor(results) == "c1"

\* line 326
NextCursor(results) == results.nextCursor

\* the non-empty guids of a page
GuidsOf(entities) == {entities[i].guid : i \in DOMAIN entities} \ {Null, ""}

\* a findServices whose loop reads every result it is given
UnguardedPage(s, resultSet, status) ==
    IF resultSet = Undefined \/ ~ServicesShape(resultSet) THEN Uncaught(s, status)
    ELSE LET results == resultSet.actor.entitySearch.results
             s1 == [MergeEntities(s, results.entities) EXCEPT
                        !.pagesSeen = @ + 1,
                        !.guidsSeen = @ \cup GuidsOf(results.entities)]
             cursor == NextCursor(results)
         IN  IF Truthy(cursor)
             THEN Issue(s1, "getMoreServices", [cursor |-> cursor])
             ELSE SelectStrategy(s1)

\* findServices from the return of nerdgraphQuery to the next await.  Reading
\* a property of undefined throws; findServices catches nothing, and neither
\* does the readline callback that awaits it: the rejection is unhandled and
\* the process ends with `status`.
ServicesPage(s, resultSet, status) ==
    IF resultSet = Undefined
    THEN (IF s.call.query = "getServices" THEN Uncaught(s, status) ELSE SelectStrategy(s))
    ELSE IF ~ServicesShape(resultSet) THEN Uncaught(s, status)
    ELSE LET results == resultSet.actor.entitySearch.results
             s1 == [MergeEntities(s, results.entities) EXCEPT
                        !.pagesSeen = @ + 1,
                        !.guidsSeen = @ \cup GuidsOf(results.entities)]
             cursor == NextCursor(results)
         IN  IF Truthy(cursor)
             THEN Issue(s1, "getMoreServices", [cursor |-> cursor])
             ELSE SelectStrategy(s1)

-----------------------------------------------------------------------------
(* requestApiKey and fetchAccountIds *)

\* fetchAccountIds: the ids, or undefined when reading the response throws;
\* undefined is modelled by the empty list, which requestApiKey treats alike
FetchAccountIds(res) ==
    IF res # Undefined /\ Has(res, "actor") /\ Has(res.actor, "accounts")
    THEN [i \in DOMAIN res.actor.accounts |-> res.actor.accounts[i].id]
    ELSE <<>>

\* the callback going on to findServices whatever fetchAccountIds returned
KeyNotChecked(s, res) ==
    [Issue([s EXCEPT !.accountIds = FetchAccountIds(res)], "getServices", EmptyObject)
        EXCEPT !.pc = "findServices"]

\* the callback of requestApiKey from the return of fetchAccountIds on;
\* findServices starts with its first request (lines 311-313)
ApiKeyChecked(s, res) ==
    LET ids == FetchAccountIds(res) IN
    IF Len(ids) > 0
    THEN [Issue([s EXCEPT !.accountIds = ids], "getServices", EmptyObject)
            EXCEPT !.pc = "findServices"]
    ELSE Exit(Log(s, <<"ERROR, api key is invalid or I failed to connect to New Relic API.">>),
              KeyExitStatus)

\* findModulesByEntity from the return of nerdgraphQuery to the next await
EntityLookedUp(s, data) ==
    LET key == s.todo[s.progress + 1]
        e == EnrichEntity(s.applications[key], data)
    IN  EntityLoop([s EXCEPT !.applications[key] = e.app,
                             !.logged = @ \o e.log,
                             !.progress = @ + 1])

-----------------------------------------------------------------------------
(* History: what a lookup response says, read off the response alone *)

\* the modules listed anywhere in the response of a per-entity lookup
ListedModules(data) ==
    IF ~EntityShape(data) THEN {}
    ELSE LET is == data.actor.entity.applicationInstances IN
         UNION {IF is[i] # NullObject /\ Has(is[i], "modules")
                THEN {is[i].modules[j] : j \in DOMAIN is[i].modules} \ {NullObject}
                ELSE {} : i \in DOMAIN is}

\* the cursor that the page of a directory request or of an account lookup
\* offers, Null when it offers none
PageCursor(data) ==
    LET offered(cursor) == IF Truthy(cursor) THEN cursor ELSE Null IN
    IF data = Undefined \/ ~Has(data, "actor") THEN Null
    ELSE IF Has(data.actor, "entitySearch") /\ Has(data.actor.entitySearch, "results")
    THEN offered(data.actor.entitySearch.results.nextCursor)
    ELSE IF /\ Has(data.actor, "account")
            /\ Has(data.actor.account, "agentEnvironment")
            /\ Has(data.actor.account.agentEnvironment, "modules")
            /\ Has(data.actor.account.agentEnvironment.modules, "nextCursor")
    THEN offered(data.actor.account.agentEnvironment.modules.nextCursor)
    ELSE Null

\* the response has a null instance or a null module
HasNullElement(data) ==
    /\ EntityShape(data)
    /\ LET is == data.actor.entity.applicationInstances IN
       \E i \in DOMAIN is :
          \/ is[i] = NullObject
          \/ /\ Has(is[i], "modules")
             /\ \E j \in DOMAIN is[i].modules : is[i].modules[j] = NullObject

\* the module lists of the instances that report at least one module
Reporting(data) ==
    IF ~EntityShape(data) THEN <<>>
    ELSE LET reports(instance) == /\ instance # NullObject
                                  /\ Has(instance, "modules")
                                  /\ Len(instance.modules) > 0
             is == SelectSeq(data.actor.entity.applicationInstances, reports)
         IN  [i \in DOMAIN is |-> is[i].modules]

LookupDigest(data) ==
    [returned |-> data # Undefined,
     shaped |-> EntityShape(data),
     modules |-> ListedModules(data),
     nulls |-> HasNullElement(data),
     reporting |-> Reporting(data)]

-----------------------------------------------------------------------------
(* The specification *)

NoApplications == [g \in {} |-> EmptyObject]

\* `state` when requestApiKey is called: the prompts for the library name and
\* the region have been answered with their defaults (lines 213, 67); apiKey
\* and accountIds, undefined until they are assigned, are not listed
Prompted == [typename |-> "Object", libraryName |-> "log4j-core", region |-> "us"]

Init ==
    /\ pc = "requestApiKey"
    /\ exitCode = 0
    /\ argv = EmptyObject
    /\ accountIds = <<>>
    /\ applications = NoApplications
    /\ appOrder = <<>>
    /\ call = NoCall
    /\ todo = <<>>
    /\ progress = 0
    /\ written = <<>>
    /\ logged = <<>>
    /\ last = [query |-> "none", tried |-> <<>>, data |-> FALSE, same |-> TRUE,
               cursor |-> Null]
    /\ calls = [first |-> 0, more |-> 0]
    /\ pagesSeen = 0
    /\ guidsSeen = {}
    /\ lookedUp = <<>>
    /\ evidence = NoApplications
    /\ firstPages = <<>>
    /\ acctCursors = 0
    /\ props = Prompted

\* the script is suspended in nerdgraphQuery, a request being out
Waiting == pc \in {"fetchAccountIds", "findServices", "findModulesByEntity",
                   "findModulesByAccount"}

\* the values `data` may have in a response to the request that is out
DataNow ==
    CASE call.query = "accessibleAccounts" -> AccountsData
      [] call.query \in {"getServices", "getMoreServices"} -> ServicesData(pagesSeen)
      [] call.query = "getModulesInEntity" -> EntityData
      [] OTHER -> AccountData(acctCursors)

\* the state once nerdgraphQuery has dealt with `reply`
Answered(reply) ==
    [State EXCEPT !.logged = TransportLog(call.attempt, reply),
                  !.call.tried = Append(@, OutcomeOf(reply))]

\* process.argv does not change while the script runs, and the script looks
\* for a switch only when it gets to the line that needs it (342, 504).  The
\* model draws a switch when it is read: `switches` are the values the step
\* reads, and argv keeps what has been read.
Switches ==
    {sw \in [quickScan : BOOLEAN, allServices : BOOLEAN] :
        \A k \in DOMAIN sw : Has(argv, k) => sw[k] = argv[k]}
With(s, switches) ==
    [x \in DOMAIN s \cup {"switches"} |-> IF x = "switches" THEN switches ELSE s[x]]

\* the switches to draw for a step that ends in `next` when it is run with
\* AnySwitches: all of them if the step reads one, else it is the same step
\* for all of them
AnySwitches == CHOOSE sw \in Switches : TRUE
Drawn(next) == IF next.argv = argv THEN {AnySwitches} ELSE Switches

\* Date.now() is an input of the step that calls writeResults: `now` is what
\* the step reads
At(s, now) == [x \in DOMAIN s \cup {"now"} |-> IF x = "now" THEN now ELSE s[x]]
AnyTime == CHOOSE now \in Elapsed : TRUE
Clock(next) == IF next.props = props THEN {AnyTime} ELSE Elapsed

\* the statuses an unhandled rejection may give the process: 1, or 0 with a
\* warning on Node.js before 15; a step that ends otherwise has no use for one
Statuses(next) == IF next.pc = "uncaught" THEN {0, 1} ELSE {1}

\* the state when nerdgraphQuery returns `value` after `reply`; last.data says
\* whether a value was returned, last.same whether it is the data of `reply`
Returned(reply, value) ==
    [Answered(reply) EXCEPT
        !.last = [query |-> call.query,
                  tried |-> Append(call.tried, OutcomeOf(reply)),
                  data |-> value # Undefined,
                  same |-> value = (IF reply.kind = "body" /\ Has(reply.response, "data")
                                    THEN reply.response.data ELSE Undefined),
                  cursor |-> PageCursor(value)]]

\* the user has entered the api key: fetchAccountIds sends its request
RequestApiKey ==
    /\ pc = "requestApiKey"
    /\ Become([Issue(State, "accessibleAccounts", EmptyObject) EXCEPT
                    !.pc = "fetchAccountIds",
                    !.props = Put(Put(@, "scanStarted", 0), "apiKey", "key")])

\* nerdgraphQuery sends the request again
Retry ==
    /\ Waiting
    /\ \E reply \in Replies(DataNow) :
        /\ NerdgraphQuery(call.attempt, reply).do = "retry"
        /\ Become([Answered(reply) EXCEPT !.call.attempt = 2])

\* handleNetworkError ends the process
CertificateError ==
    /\ Waiting
    /\ \E reply \in Replies(DataNow) :
        /\ NerdgraphQuery(call.attempt, reply).do = "exit"
        /\ Become(Exit(Answered(reply), CertExitStatus))

\* JSON.parse throws in the 'end' handler: an uncaught exception, status 1
ParseError ==
    /\ Waiting
    /\ \E reply \in Replies(DataNow) :
        /\ NerdgraphQuery(call.attempt, reply).do = "throw"
        /\ Become(Uncaught(Answered(reply), 1))

\* nerdgraphQuery returns to fetchAccountIds
AccountsFetched ==
    /\ pc = "fetchAccountIds"
    /\ \E reply \in Replies(DataNow) :
        LET q == NerdgraphQuery(call.attempt, reply) IN
        /\ q.do = "return"
        /\ Become(ApiKeyChecked(Returned(reply, q.value), q.value))

\* nerdgraphQuery returns to findServices; an unhandled rejection ends the
\* process with status 1, or with 0 and a warning on Node.js before 15
ServicesFetched ==
    /\ pc = "findServices"
    /\ \E reply \in Replies(DataNow) :
        LET q == NerdgraphQuery(call.attempt, reply)
            step(sw, status, now) ==
                ServicesPage(At(With(Returned(reply, q.value), sw), now), q.value, status)
        IN
        /\ q.do = "return"
        /\ \E next \in {step(AnySwitches, 1, AnyTime)} :
            \E sw \in Drawn(next), status \in Statuses(next), now \in Clock(next) :
                Become(IF sw = AnySwitches /\ status = 1 /\ now = AnyTime
                       THEN next ELSE step(sw, status, now))

\* nerdgraphQuery returns to findModulesByEntity
EntityFetched ==
    /\ pc = "findModulesByEntity"
    /\ \E reply \in Replies(DataNow) :
        LET q == NerdgraphQuery(call.attempt, reply)
            key == todo[progress + 1]
            step(sw, now) ==
                EntityLookedUp(
                    [At(With(Returned(reply, q.value), sw), now) EXCEPT
                        !.evidence = Put(@, key, LookupDigest(q.value))],
                    q.value)
        IN
        /\ q.do = "return"
        /\ \E next \in {step(AnySwitches, AnyTime)} :
            \E sw \in Drawn(next), now \in Clock(next) :
                Become(IF sw = AnySwitches /\ now = AnyTime THEN next ELSE step(sw, now))

\* nerdgraphQuery returns to findModulesByAccount
AccountFetched ==
    /\ pc = "findModulesByAccount"
    /\ \E reply \in Replies(DataNow) :
        LET q == NerdgraphQuery(call.attempt, reply)
            step(sw, now) ==
                AccountPage(At(With(Returned(reply, q.value), sw), now), q.value)
        IN
        /\ q.do = "return"
        /\ \E next \in {step(AnySwitches, AnyTime)} :
            \E sw \in Drawn(next), now \in Clock(next) :
                Become(IF sw = AnySwitches /\ now = AnyTime THEN next ELSE step(sw, now))

Next ==
    \/ RequestApiKey
    \/ Retry
    \/ CertificateError
    \/ ParseError
    \/ AccountsFetched
    \/ ServicesFetched
    \/ EntityFetched
    \/ AccountFetched

Spec == Init /\ [][Next]_vars

\* Every request is answered or fails in the end: whenever the script waits
\* for a reply (or for the api key), one of the steps above is taken.
FairSpec == Spec /\ WF_vars(Next)


-----------------------------------------------------------------------------
(* Properties *)

\* an attempt of the call in progress, or of the last one, failed with a
\* certificate error
CertificateFailed == \E i \in DOMAIN call.tried : call.tried[i] = "certificate"

\* C1 - Trust-failure fatality.  Once an attempt of any call (first attempt or
\* retry, whichever function made the call) fails with a certificate error,
\* the process has exited with the non-zero status of handleNetworkError, no
\* second request was sent for the failed one, nothing has been handed to the
\* writer, and no step follows the exit: no request, no entity, no account.
TrustFailureFatality ==
    /\ [](CertificateFailed =>
            /\ pc = "exited"
            /\ exitCode = CertExitStatus
            /\ exitCode # 0
            /\ call.attempt = Len(call.tried)
            /\ written = <<>>)
    /\ [][pc # "exited"]_vars

\* the retry of an entity lookup fails with a certificate error while another
\* entity is waiting
TrustFailureOnRetry ==
    /\ pc = "exited"
    /\ call.query = "getModulesInEntity"
    /\ call.tried = <<"failed", "certificate">>
    /\ progress + 1 < Len(todo)

\* findServices has left its loop because the last page, which the last
\* list-of-services call returned, had no cursor; no lookup has returned yet
DirectoryBuilt ==
    /\ Has(argv, "quickScan")
    /\ last.query \in {"getServices", "getMoreServices"}
    /\ last.data

\* C2 - Pagination completeness.  When the list-of-services calls returned K
\* pages, the first K-1 with a cursor and the K-th without, findServices has
\* made exactly K calls, one without a cursor and K-1 with one, and the keys of
\* the map are the non-empty guids of those pages, one record under each.
PaginationCompleteness ==
    DirectoryBuilt =>
        /\ calls.first = 1
        /\ calls.more = pagesSeen - 1
        /\ DOMAIN applications = guidsSeen
        /\ Len(appOrder) = Cardinality(guidsSeen)
        /\ \A g \in guidsSeen : applications[g].guid = g

\* a directory of MaxPages pages with two guids, one entity without a guid left out
DirectoryOfSeveralPages ==
    /\ DirectoryBuilt
    /\ pagesSeen = MaxPages
    /\ calls.more = MaxPages - 1
    /\ Cardinality(guidsSeen) = 2

\* an attempt of the call in progress, or of the last one, got a body that is
\* not JSON
ParseFailed == \E i \in DOMAIN call.tried : call.tried[i] = "garbage"

\* requestApiKey has ended the process: the key gave no account
AuthenticationFailed ==
    /\ pc = "exited"
    /\ exitCode = KeyExitStatus
    /\ call.query = "accessibleAccounts"

\* C3 - Propagation policy.  The process ends abnormally, by process.exit or
\* by an uncaught error, only after a certificate error or when the api key
\* gave no account.  (A body that is not JSON is left to C5.)
PropagationPolicy ==
    (pc \in {"exited", "uncaught"} /\ ~ParseFailed) =>
        (CertificateFailed \/ AuthenticationFailed)

\* C4 - Retry-once transport.  A call without a certificate error sends at
\* most two requests, the second one exactly when the first attempt failed;
\* it returns only after an attempt with data or after two failed attempts;
\* what it returns after data, on the first attempt or on the retry, is that
\* data, and after two failed attempts it returns undefined.
RetryOnceTransport ==
    /\ call.attempt <= 2
    /\ Len(call.tried) <= call.attempt
    /\ call.attempt = 2 => call.tried # <<>> /\ call.tried[1] = "failed"
    /\ call.tried = <<"failed">> /\ pc \notin {"exited", "uncaught"} => call.attempt = 2
    /\ last.tried \in {<<>>, <<"data">>, <<"failed", "data">>, <<"failed", "failed">>}
    /\ last.tried \in {<<"data">>, <<"failed", "data">>} => last.data /\ last.same
    /\ last.tried = <<"failed", "failed">> => ~last.data
    /\ call.tried = <<"failed", "failed">> =>
            last.query = call.query /\ last.tried = call.tried

\* the retry of an entity lookup brought the data the caller got
RetrySucceeded ==
    /\ last.query = "getModulesInEntity"
    /\ last.tried = <<"failed", "data">>
    /\ last.data
    /\ last.same

\* C5 - Malformed body is a transient failure.  An attempt whose body is not
\* JSON does not end the process, and when it was the first attempt the
\* request is sent again.
MalformedBodyIsTransient ==
    ParseFailed =>
        /\ pc # "uncaught"
        /\ call.tried[1] = "garbage" => call.attempt = 2

\* the step in which nerdgraphQuery returns undefined to the lookup of an
\* entity or to the first-page lookup of an account, both attempts having failed
LookupFailedTwice ==
    /\ call.query \in {"getModulesInEntity", "getModulesInAccount"}
    /\ call.tried = <<"failed">>
    /\ last'.tried = <<"failed", "failed">>
    /\ pc' \notin {"exited", "uncaught"}

\* the loop is at its next item, or past its last one at writeResults
NextItem ==
    IF call.query = "getModulesInEntity"
    THEN /\ progress' = progress + 1
         /\ IF progress + 1 < Len(todo)
            THEN /\ pc' = "findModulesByEntity"
                 /\ call'.query = "getModulesInEntity"
                 /\ call'.variables.entityGuid = todo[progress + 2]
                 /\ call'.tried = <<>>
            ELSE pc' = "done" /\ Len(written') = 1
    ELSE IF progress < Len(accountIds)
         THEN /\ pc' = "findModulesByAccount"
              /\ progress' = progress + 1
              /\ call'.query = "getModulesInAccount"
              /\ call'.variables.accountId = accountIds[progress + 1]
              /\ call'.tried = <<>>
         ELSE pc' = "done" /\ Len(written') = 1

\* C6 - Retry-then-skip.  When both attempts of the lookup of an entity, or of
\* the first-page lookup of an account, fail, the map is what it was before
\* the lookup and the loop goes on with the next entity or account.
RetryThenSkip ==
    [][LookupFailedTwice =>
        /\ applications' = applications
        /\ appOrder' = appOrder
        /\ NextItem]_vars

\* the lookup of the first of two entities has failed twice and the second
\* one is being looked up
SkippedToNextEntity ==
    /\ pc = "findModulesByEntity"
    /\ last.query = "getModulesInEntity"
    /\ last.tried = <<"failed", "failed">>
    /\ progress = 1
    /\ Len(todo) = 2
    /\ lookedUp = todo

\* the run has ended, by running off the script, by process.exit or by an
\* uncaught error
Ended == pc \in {"done", "exited", "uncaught"}

\* C7 - Per-entity fault isolation.  Without a certificate error, a run of
\* findModulesByEntity ends only at writeResults, after one lookup for each
\* record that was in the map when it began, in the order of the map.
PerEntityFaultIsolation ==
    (Ended /\ Has(argv, "quickScan") /\ ~argv.quickScan /\ ~CertificateFailed) =>
        /\ pc = "done"
        /\ lookedUp = todo
        /\ Len(written) = 1

\* C8 - Per-account fault isolation.  Without a certificate error, a run of
\* findModulesByAccount ends only at writeResults, after the first-page lookup
\* of every account, in the order of the list.
PerAccountFaultIsolation ==
    (Ended /\ Has(argv, "quickScan") /\ argv.quickScan /\ ~CertificateFailed) =>
        /\ pc = "done"
        /\ firstPages = accountIds
        /\ Len(written) = 1

\* the records of the map in which a library is present
Matched == {applications[g] : g \in {k \in DOMAIN applications : Has(applications[k], "library")}}

\* the elements of a sequence
Range(list) == {list[i] : i \in DOMAIN list}

\* C9 - Matched-set filter.  Without --all-services the list handed to the
\* writer holds exactly the records of the map in which a library is present,
\* each once; with --all-services it holds every record of the map, each once.
MatchedSetFilter ==
    pc = "done" =>
        /\ Len(written) = 1
        /\ Range(written[1]) =
                (IF argv.allServices THEN Range(Values(State)) ELSE Matched)
        /\ Len(written[1]) = Cardinality(Range(written[1]))
        /\ argv.allServices => Len(written[1]) = Cardinality(DOMAIN applications)

\* a map of two records, one of them matched, reported without --all-services
OneOfTwoMatched ==
    /\ pc = "done"
    /\ ~argv.allServices
    /\ Cardinality(DOMAIN applications) = 2
    /\ Len(written[1]) = 1

\* a per-entity scan that has run to its end and reports the matched records
PerEntityMatchedReport ==
    /\ pc = "done"
    /\ ~argv.quickScan
    /\ ~argv.allServices

\* the guids of the map, in its order, whose lookup listed a module
WithEvidence ==
    SelectSeq(appOrder, LAMBDA g : Has(evidence, g) /\ evidence[g].modules # {})

\* the library fields of a record come from modules of the lookup of its guid
FromOwnLookup(record) ==
    LET ms == evidence[record.guid].modules
        Sums(m, name) ==
            IF Has(m, "attributes")
            THEN {m.attributes[i].value :
                    i \in {j \in DOMAIN m.attributes : m.attributes[j].name = name}}
            ELSE {}
    IN  /\ \E m \in ms : record.library = m.name /\ record.libraryVersion = m.version
        /\ Has(record, "librarySha1") =>
                \E m \in ms : record.librarySha1 \in Sums(m, "sha1Checksum")
        /\ Has(record, "librarySha512") =>
                \E m \in ms : record.librarySha512 \in Sums(m, "sha512Checksum")

\* the report lists, in the order of the map, the entities whose lookup listed
\* a module, with library fields of that lookup
ReportIsEvidence ==
    /\ Len(written[1]) = Len(WithEvidence)
    /\ \A i \in DOMAIN written[1] :
        /\ written[1][i].guid = WithEvidence[i]
        /\ FromOwnLookup(written[1][i])

NoNullElements == \A g \in DOMAIN evidence : ~evidence[g].nulls

-----------------------------------------------------------------------------
(* Properties: evidence, synthesis, decoding *)

\* the attributes the scan adds to a record besides `library`
EvidenceFields ==
    {"libraryVersion", "librarySha1", "librarySha512", "agentVersion", "examinedInstances"}

\* C11 - Evidence-absent invariant.  In every state a record of the map in
\* which library is absent has none of libraryVersion, librarySha1,
\* librarySha512, agentVersion and examinedInstances either.
EvidenceAbsent ==
    \A g \in DOMAIN applications :
        ~Has(applications[g], "library") =>
            DOMAIN applications[g] \cap EvidenceFields = {}

\* what identifies a service: the fields a record has from the start
IdentityFields == {"guid", "accountId", "applicationId", "name", "nrUrl"}
Identity(record) == [f \in IdentityFields |-> record[f]]

\* the display name and the application id the groups of the API give for
\* the guids they list: "java:hostA:8080" is hostA, and the fourth field of
\* what gA and gC decode to is 11 and 7
NameFor(guid) == IF guid = "gA" THEN <<"hostA">> ELSE <<"hostC">>
WellFormed == {"gA", "gC"}
IdOf(guid) == IF guid = "gA" THEN Num(11) ELSE Num(7)

\* C12 - Synthesis on missing directory entry.  When findModulesByAccount
\* meets a guid that is no key of the map in a group with a loaded module, it
\* adds one record under that guid with the account being scanned, the derived
\* name, the application id decoded from the guid and the url built from
\* both, and merges the module into it; whatever mentions the guid afterwards,
\* the map keeps one record per guid and that record keeps its identity.
SynthesisOnMissingEntry ==
    [][pc = "findModulesByAccount" =>
        /\ \A g \in DOMAIN applications' \ DOMAIN applications :
            LET r == applications'[g] IN
            /\ r.guid = g
            /\ r.accountId = call.variables.accountId
            /\ r.name = NameFor(g)
            /\ g \in WellFormed =>
                /\ r.applicationId = IdOf(g)
                /\ r.nrUrl = <<"https://rpm.newrelic.com/accounts/", r.accountId,
                               "/applications/", IdOf(g), "/environment">>
            /\ Has(r, "library") /\ Has(r, "libraryVersion")
        /\ \A g \in DOMAIN applications :
            /\ g \in DOMAIN applications'
            /\ Identity(applications'[g]) = Identity(applications[g])
        /\ Len(appOrder') = Cardinality(DOMAIN applications')
        /\ {appOrder'[i] : i \in DOMAIN appOrder'} = DOMAIN applications'
      ]_vars

\* gC was made up while the first of two accounts was scanned and is still
\* that record at the end of the scan
SynthesizedOnce ==
    /\ pc = "done"
    /\ Len(accountIds) = 2
    /\ firstPages = accountIds
    /\ "gC" \in DOMAIN applications
    /\ "gC" \notin guidsSeen
    /\ applications["gC"].accountId = accountIds[1]
    /\ applications["gC"].library = "log4j-core"

\* the guids of the API that deviate from the format: no base64, three
\* fields, a fourth field that is no number
Malformed == {"gBad", "gShort", "gWord"}

\* C13 - Decode failure.  Every record made up for a guid that deviates from
\* the format has an absent applicationId and an empty url.
DecodeFailure ==
    \A g \in (DOMAIN applications \cap Malformed) \ guidsSeen :
        /\ applications[g].applicationId = NoNum
        /\ applications[g].nrUrl = <<>>

-----------------------------------------------------------------------------
(* Properties: order of the requests *)

\* C14 - Authentication failure is fatal before scanning.  Once the
\* accessibleAccounts call has ended without a single account (no data, an
\* exception, or an empty list) the process has ended with a status other
\* than 0 and accessibleAccounts is the only query it ever sent.
AuthenticationFailureIsFatal ==
    (pc \notin {"requestApiKey", "fetchAccountIds"} /\ accountIds = <<>>) =>
        /\ pc \in {"exited", "uncaught"}
        /\ exitCode # 0
        /\ call.query = "accessibleAccounts"
        /\ calls = [first |-> 0, more |-> 0]
        /\ lookedUp = <<>> /\ firstPages = <<>>

\* the API answered with data that lists no account, and the script gave up
NoAccountNoScan ==
    /\ pc = "exited"
    /\ exitCode = KeyExitStatus
    /\ last.query = "accessibleAccounts"
    /\ last.data
    /\ accountIds = <<>>

\* the scan is past the directory: a strategy runs or has run to its end
Scanning == pc \in {"findModulesByEntity", "findModulesByAccount", "done"}

\* C15 - Phase ordering.  One strategy runs, findModulesByEntity unless
\* --quick-scan is given, and never both; the strategy starts in the step
\* in which the last directory call returns and its page, if it brought one,
\* is merged, and no directory request follows it; writeResults is called once, at the end of the strategy, when
\* every request sent has been answered.
PhaseOrdering ==
    /\ [](/\ pc = "findModulesByEntity" => ~argv.quickScan /\ firstPages = <<>>
          /\ pc = "findModulesByAccount" => argv.quickScan /\ lookedUp = <<>>
          /\ lookedUp = <<>> \/ firstPages = <<>>
          /\ Len(written) = (IF pc = "done" THEN 1 ELSE 0)
          /\ pc = "done" => call.attempt = Len(call.tried))
    /\ [][/\ (pc = "findServices" /\ Scanning') =>
                /\ last'.query = call.query
                /\ Len(last'.tried) = call.attempt
                /\ pagesSeen' = pagesSeen + (IF last'.data THEN 1 ELSE 0)
                /\ guidsSeen' \subseteq DOMAIN applications'
          /\ Scanning =>
                /\ pc' \in {pc, "done", "exited", "uncaught"}
                /\ calls' = calls
                /\ pagesSeen' = pagesSeen
          /\ pc = "done" => UNCHANGED vars
         ]_vars

\* several directory pages, then lookups one by one, then the one report
DirectoryThenLookupsThenReport ==
    /\ pc = "done"
    /\ pagesSeen = MaxPages
    /\ Len(lookedUp) >= 2
    /\ Len(written) = 1
    /\ ~argv.quickScan

\* C16 - Strictly sequential directory pagination.  A getMoreServices
\* request carries the nextCursor of the page received last, whose entities
\* are in the map when it is sent; there is one getServices call and one
\* getMoreServices call per page that offered a cursor, each sent in the step
\* that received that page.
SequentialPagination ==
    /\ [](/\ calls.first <= 1
          /\ calls.more <= pagesSeen
          /\ (pc = "findServices" \/ Scanning) => calls.first = 1
          /\ pc = "findServices" =>
                /\ calls.more = pagesSeen
                /\ call.query = (IF pagesSeen = 0 THEN "getServices" ELSE "getMoreServices")
                /\ guidsSeen \subseteq DOMAIN applications
                /\ pagesSeen > 0 =>
                    /\ last.query \in {"getServices", "getMoreServices"}
                    /\ last.data
                    /\ Truthy(last.cursor)
                    /\ call.variables = [cursor |-> last.cursor])
    /\ [][calls'.more # calls.more =>
            /\ pc = "findServices"
            /\ calls'.more = calls.more + 1
            /\ pagesSeen' = pagesSeen + 1
         ]_vars

\* the follow-up request for the page after cursor c2 is out a second time
FollowUpWithCursor ==
    /\ pc = "findServices"
    /\ call.query = "getMoreServices"
    /\ call.variables.cursor = "c2"
    /\ call.attempt = 2
    /\ guidsSeen = {"gA", "gB"}

\* C17 - No parallel fan-out.  At most one request is out at any time;
\* findModulesByEntity asks for the records in the order of the map and
\* findModulesByAccount for the accounts in the order of the list; and when
\* the request for the next item goes out the work on the items before it is
\* over: their records do not change any more and no request names them.
NoParallelFanOut ==
    /\ [](/\ Outstanding \in {0, 1}
          /\ pc = "findModulesByEntity" =>
                /\ lookedUp = SubSeq(appOrder, 1, progress + 1)
                /\ call.variables = [entityGuid |-> appOrder[progress + 1]]
          /\ pc = "findModulesByAccount" =>
                /\ firstPages = SubSeq(accountIds, 1, progress)
                /\ call.variables.accountId = accountIds[progress])
    /\ [][/\ call'.attempt > Len(call'.tried) =>
                Outstanding = (IF pc = "requestApiKey" THEN 0 ELSE 1)
          /\ pc = "findModulesByEntity" =>
                /\ Len(lookedUp') \in {Len(lookedUp), Len(lookedUp) + 1}
                /\ \A k \in 1..(Len(lookedUp) - 1) :
                       applications'[lookedUp[k]] = applications[lookedUp[k]]
          /\ pc = "findModulesByAccount" =>
                Len(firstPages') \in {Len(firstPages), Len(firstPages) + 1}
         ]_vars

\* the lookup of the second of two records is out for the second time
SecondItemAfterFirst ==
    /\ pc = "findModulesByEntity"
    /\ appOrder = <<"gB", "gA">>
    /\ progress = 1
    /\ call.attempt = 2
    /\ Outstanding = 1
    /\ Has(applications["gB"], "library")

-----------------------------------------------------------------------------
(* Properties: termination *)

\* the process has ended
Terminated == pc \in {"done", "exited", "uncaught"}

\* C18 - Termination as stated.  When every request is answered and the API
\* stops handing out cursors, the scan gets to writeResults.
ReportReached == <>(pc = "done")

\* the outcome of the request answered last
LastOutcome == call.tried[Len(call.tried)]

\* C18 - Termination.  When every request is answered and the API stops
\* handing out cursors, the process ends: with writeResults, or before it by
\* process.exit after a certificate error or a key without accounts, or by
\* an exception nobody catches, thrown by JSON.parse or by findServices
\* reading a directory response.
Termination ==
    /\ <>Terminated
    /\ [](pc = "exited" =>
            \/ exitCode = CertExitStatus /\ LastOutcome = "certificate"
            \/ exitCode = KeyExitStatus /\ call.query = "accessibleAccounts")
    /\ [](pc = "uncaught" =>
            \/ LastOutcome = "garbage"
            \/ call.query \in {"getServices", "getMoreServices"})

\* the scan has followed every cursor the API handed out, in the directory
\* and in an account, and has written its report
EveryCursorFollowed ==
    /\ pc = "done"
    /\ pagesSeen = MaxPages
    /\ calls.more = MaxPages - 1
    /\ acctCursors = MaxPages - 1
    /\ Len(written) = 1

-----------------------------------------------------------------------------
(* Properties: the merge *)

\* a lookup response with two instances that report different modules
TwoInstances ==
    [actor |-> [entity |-> [applicationInstances |->
        <<[modules |-> <<ModuleA>>], [modules |-> <<ModuleB>>]>>]]]

\* C19 - Evidence merge idempotence.  Whatever record the map holds and
\* whatever the API answers, taking the same lookup response a second time
\* leaves the record as the first time left it, examinedInstances included;
\* the same for the module groups of an account page and the whole map.
MergeIdempotence ==
    /\ \A g \in DOMAIN applications : \A data \in EntityData :
        LET once == EnrichEntity(applications[g], data).app
        IN  EnrichEntity(once, data).app = once
    /\ \A accountId \in 1..MaxAccounts : \A results \in ResultLists :
        LET once == AccountResults(State, accountId, results).s
            twice == AccountResults(once, accountId, results).s
        IN  /\ twice.applications = once.applications
            /\ twice.appOrder = once.appOrder

\* gA has taken the response with two instances, and taking it again changes
\* nothing
SameResponseAgain ==
    /\ pc = "done"
    /\ "gA" \in DOMAIN applications
    /\ Has(applications["gA"], "examinedInstances")
    /\ applications["gA"].examinedInstances = 2
    /\ applications["gA"].library = ModuleB.name
    /\ applications["gA"].librarySha512 = "sha512-a"
    /\ EnrichEntity(applications["gA"], TwoInstances).app = applications["gA"]

-----------------------------------------------------------------------------
(* Properties: the transport *)

\* the line nerdgraphQuery writes for the errors of a first response
ErrorsLine == <<"Error returned from API">>

\* C20 - Partial success.  When the first response to a request carries
\* errors and data, nerdgraphQuery writes the errors to stderr, returns that
\* data to its caller and sends no second request; it sends one only when
\* the response had no data.
PartialSuccess ==
    [][(Waiting /\ call.attempt = 1 /\ logged' # <<>> /\ Head(logged') = ErrorsLine) =>
          IF call'.attempt = 2
          THEN call'.query = call.query /\ call'.tried = <<"failed">>
          ELSE /\ last'.query = call.query
               /\ last'.tried = <<"data">>
               /\ last'.data
               /\ last'.same
      ]_vars

\* a lookup was answered at once, with errors and with the module of gA
DataWithErrors ==
    /\ last.query = "getModulesInEntity"
    /\ last.tried = <<"data">>
    /\ last.data
    /\ logged = <<ErrorsLine>>
    /\ lookedUp # <<>>
    /\ applications[lookedUp[1]].library = ModuleA.name

\* the modules of the API, and the truthy values a module gives for an attribute
Modules == {ModuleA, ModuleB, ModuleC}
ValuesOf(module, name) ==
    IF Has(module, "attributes")
    THEN {module.attributes[i].value : i \in {j \in DOMAIN module.attributes :
                /\ module.attributes[j].name = name
                /\ Truthy(module.attributes[j].value)}}
    ELSE {}

\* C21 - Last module wins with no mixing.  The library, the version and the
\* checksums of a record are those of one module: a checksum the record has
\* is a checksum of the module that gave it its library and version.
NoMixing ==
    \A g \in DOMAIN applications :
        Has(applications[g], "library") =>
            \E m \in Modules :
                /\ applications[g].library = m.name
                /\ applications[g].libraryVersion = m.version
                /\ Has(applications[g], "librarySha1") =>
                        applications[g].librarySha1 \in ValuesOf(m, "sha1Checksum")
                /\ Has(applications[g], "librarySha512") =>
                        applications[g].librarySha512 \in ValuesOf(m, "sha512Checksum")

\* the record of g has what the response to its lookup says: the number of
\* instances that report a module, and the name and version of the last
\* module of the last of them
Extracted(g) ==
    LET reporting == evidence[g].reporting
        record == applications[g]
        last_ == reporting[Len(reporting)]
    IN  /\ Has(record, "examinedInstances")
        /\ record.examinedInstances = Len(reporting)
        /\ reporting # <<>> =>
            /\ Has(record, "library") /\ Has(record, "libraryVersion")
            /\ record.library = last_[Len(last_)].name
            /\ record.libraryVersion = last_[Len(last_)].version

-----------------------------------------------------------------------------
(* Properties: what a lookup may change *)

\* the record findModulesByEntity is waiting for, and its lookup returned in
\* this step with data that lacks the shape of line 362
Misshapen(key) ==
    /\ pc = "findModulesByEntity"
    /\ key = todo[progress + 1]
    /\ evidence' # evidence
    /\ evidence'[key].returned
    /\ ~evidence'[key].shaped

\* C23 - Malformed lookup shape is recoverable.  When the lookup of a record
\* returns data without actor, entity or applicationInstances, a warning with
\* the guid and the url of the record is written, the record stays as it
\* was, and the loop goes on to the next record, or to writeResults after
\* the last one.
MalformedShapeRecoverable ==
    [][\A key \in DOMAIN applications :
        Misshapen(key) =>
            /\ logged' # <<>>
            /\ logged'[Len(logged')] =
                    <<"Warning: failed to get library list for", key, applications[key].nrUrl>>
            /\ applications' = applications
            /\ progress' = progress + 1
            /\ IF progress' < Len(todo)
               THEN /\ pc' = "findModulesByEntity"
                    /\ call' = [query |-> "getModulesInEntity",
                                variables |-> [entityGuid |-> todo[progress' + 1]],
                                attempt |-> 1, tried |-> <<>>]
               ELSE pc' = "done"
      ]_vars

\* the lookup of the first of two records brought data without the shape,
\* and the lookup of the second is out
WarnedAndWentOn ==
    /\ pc = "findModulesByEntity"
    /\ Len(todo) = 2
    /\ progress = 1
    /\ evidence[todo[1]].returned
    /\ ~evidence[todo[1]].shaped
    /\ logged = ShapeWarning(applications[todo[1]])
    /\ call.variables.entityGuid = todo[2]

\* C24 - No partial writes on a processing exception.  When the response to
\* the lookup of a record has a null instance or a null module, so that its
\* processing throws, the record is after the step what it was before.
NoPartialWrites ==
    [][\A key \in DOMAIN applications :
        (/\ pc = "findModulesByEntity"
         /\ key = todo[progress + 1]
         /\ evidence' # evidence
         /\ evidence'[key].nulls) => applications'[key] = applications[key]
      ]_vars

\* a module group with a loaded module and no guid
ZeroGuid(result) ==
    /\ Len(result.loadedModules) > 0
    /\ ~Has(result, "applicationGuids") \/ Len(result.applicationGuids) = 0

\* the loaded modules of the groups without a guid
RECURSIVE ZeroGuidModules(_)
ZeroGuidModules(results) ==
    IF results = <<>> THEN 0
    ELSE (IF ZeroGuid(Head(results)) THEN Len(Head(results).loadedModules) ELSE 0)
         + ZeroGuidModules(Tail(results))

\* C25 - Zero-guid module groups.  While an account is scanned, whatever page
\* the API sends: a module group with loaded modules and no guid, empty or
\* missing, stops nothing, adds one warning per module and leaves the map as
\* the other groups of the page make it.
ZeroGuidGroups ==
    pc = "findModulesByAccount" =>
        \A results \in ResultLists :
            (\E i \in DOMAIN results : ZeroGuid(results[i])) =>
                LET accountId == accountIds[progress]
                    others == SelectSeq(results, LAMBDA result : ~ZeroGuid(result))
                    r == AccountResults(State, accountId, results)
                IN  /\ ~r.threw
                    /\ Len(r.s.logged) = Len(logged) + ZeroGuidModules(results)
                    /\ r.s.applications =
                            AccountResults(State, accountId, others).s.applications

-----------------------------------------------------------------------------
(* Properties: the pages of an account *)

AccountQueries == {"getModulesInAccount", "getMoreModulesInAccount"}

\* the line of the catch of line 481
AccountError(accountId) == <<"Error fetching data for account", accountId>>

\* C26 - Per-account cursor chain.  A getMoreModulesInAccount request has the
\* id of the account being scanned and the nextCursor of the page that came
\* last, a page of that account; a first request has the id alone; and the
\* scan leaves an account only when its last request brought no data, a page
\* without nextCursor, or a page whose processing threw.
AccountCursorChain ==
    /\ [](pc = "findModulesByAccount" =>
            IF call.query = "getMoreModulesInAccount"
            THEN /\ call.variables = [accountId |-> accountIds[progress],
                                      cursor |-> last.cursor]
                 /\ Truthy(last.cursor)
                 /\ last.query \in AccountQueries
                 /\ last.data
            ELSE /\ call.query = "getModulesInAccount"
                 /\ call.variables = [accountId |-> accountIds[progress]])
    /\ [][pc = "findModulesByAccount" =>
            /\ (call'.query = "getMoreModulesInAccount" /\ call'.tried = <<>>) =>
                    /\ progress' = progress
                    /\ last'.query = call.query
                    /\ call'.variables.accountId = call.variables.accountId
            /\ (firstPages' # firstPages \/ pc' = "done") =>
                    /\ last'.query = call.query
                    /\ Len(last'.tried) = call.attempt
                    /\ \/ ~last'.data
                       \/ ~Truthy(last'.cursor)
                       \/ /\ logged' # <<>>
                          /\ logged'[Len(logged')] = AccountError(accountIds[progress])
         ]_vars

\* the second page of the second account has been asked for with the cursor
\* c2 of its first page, after the first account was left
SecondAccountSecondPage ==
    /\ pc = "findModulesByAccount"
    /\ Len(accountIds) = 2
    /\ progress = 2
    /\ call.query = "getMoreModulesInAccount"
    /\ call.variables = [accountId |-> accountIds[2], cursor |-> "c2"]
    /\ last.cursor = "c2"

-----------------------------------------------------------------------------
(* Properties: the map *)

\* C27 - Map keying invariant.  Every key of state.applications has one
\* record, listed once by Object.values, and the guid of that record is the
\* key, for the records of the directory and for the ones made up.
MapKeying ==
    /\ \A g \in DOMAIN applications :
        /\ Has(applications[g], "guid")
        /\ applications[g].guid = g
    /\ Len(appOrder) = Cardinality(DOMAIN applications)
    /\ {appOrder[i] : i \in DOMAIN appOrder} = DOMAIN applications

\* gA came with two directory pages, gC was made up from a module group
ListedAndMadeUp ==
    /\ pc = "done"
    /\ pagesSeen = 2
    /\ "gA" \in guidsSeen
    /\ "gC" \in DOMAIN applications \ guidsSeen
    /\ "gA" \in DOMAIN applications
    /\ applications["gA"].name = <<"svcA2">>

\* the attributes findModulesByAccount merges into a record
LibraryFields == {"library", "libraryVersion", "librarySha1", "librarySha512"}

\* C28 - Per-account frame.  A step of findModulesByAccount writes agentVersion
\* and examinedInstances on no record, and on a record that is in the map it
\* changes nothing but library, libraryVersion, librarySha1 and librarySha512.
PerAccountFrame ==
    [][pc = "findModulesByAccount" =>
        /\ \A g \in DOMAIN applications' \ DOMAIN applications :
            DOMAIN applications'[g] \cap {"agentVersion", "examinedInstances"} = {}
        /\ \A g \in DOMAIN applications :
            /\ g \in DOMAIN applications'
            /\ DOMAIN applications'[g] \ LibraryFields = DOMAIN applications[g] \ LibraryFields
            /\ \A f \in DOMAIN applications[g] \ LibraryFields :
                    applications'[g][f] = applications[g][f]
      ]_vars

\* the account scan has merged a module into the record of gA that the
\* directory listed, and the record is otherwise the one of the directory
DirectoryRecordMerged ==
    /\ pc = "done"
    /\ argv.quickScan
    /\ "gA" \in guidsSeen
    /\ Has(applications["gA"], "librarySha512")
    /\ applications["gA"].name = <<"svcA">>
    /\ applications["gA"].accountId = 1
    /\ DOMAIN applications["gA"] \ LibraryFields = IdentityFields

\* C29 - Per-entity frame.  A step of findModulesByEntity leaves the keys of
\* the map and their order as they are and changes guid, accountId,
\* applicationId, name and nrUrl of no record; and no step of the scan takes
\* a key out of the map.
PerEntityFrame ==
    [][/\ DOMAIN applications \subseteq DOMAIN applications'
       /\ pc = "findModulesByEntity" =>
            /\ DOMAIN applications' = DOMAIN applications
            /\ appOrder' = appOrder
            /\ \A g \in DOMAIN applications :
                    Identity(applications'[g]) = Identity(applications[g])
      ]_vars

\* both records of the directory have been looked up and have a library, and
\* the map has the keys the directory gave it
BothEnrichedInPlace ==
    /\ pc = "done"
    /\ ~argv.quickScan
    /\ guidsSeen = {"gA", "gB"}
    /\ DOMAIN applications = guidsSeen
    /\ \A g \in guidsSeen : Has(applications[g], "library")
    /\ applications["gB"].name = <<"svcB">>

\* what the directory holds for an entity: the entity as it was listed, and
\* the address built from its accountId and applicationId
DirectoryRecord(e) ==
    Put(e, "nrUrl", <<"https://rpm.newrelic.com/accounts/", e.accountId,
                      "/applications/", e.applicationId, "/environment">>)

\* the entity listed last on a page under a guid
LastWith(entities, g) ==
    entities[CHOOSE i \in DOMAIN entities :
                /\ entities[i].guid = g
                /\ \A j \in DOMAIN entities : entities[j].guid = g => j <= i]

\* C30 - Directory insertion rule.  While the directory is built, the map
\* has no key for an empty guid and every record is one listed entity, whole,
\* with the address of its own accountId and applicationId; and whatever page
\* comes next, the map gets the non-empty guids of the page as keys, each
\* with the entity listed last under it in place of any earlier record, and
\* the other records stay as they are.
DirectoryInsertion ==
    pc = "findServices" =>
        /\ DOMAIN applications = guidsSeen
        /\ \A g \in DOMAIN applications :
                /\ Truthy(g)
                /\ \E e \in Entities : e.guid = g /\ applications[g] = DirectoryRecord(e)
        /\ \A entities \in SeqsUpTo(Entities, MaxPageLen) :
                LET after == MergeEntities(State, entities).applications IN
                /\ DOMAIN after = DOMAIN applications \cup GuidsOf(entities)
                /\ \A g \in GuidsOf(entities) :
                        after[g] = DirectoryRecord(LastWith(entities, g))
                /\ \A g \in DOMAIN applications \ GuidsOf(entities) :
                        after[g] = applications[g]

\* a first page has put svcA and svcB into the map, and the request for the
\* next page, which may list svcA2 under the guid of svcA, is out
SameGuidOnNextPage ==
    /\ pc = "findServices"
    /\ pagesSeen = 1
    /\ call.query = "getMoreServices"
    /\ appOrder = <<"gA", "gB">>
    /\ applications["gA"].name = <<"svcA">>
    /\ applications["gA"].nrUrl[2] = 1

\* the step in which the call for a further page of the directory returns
\* without data
FollowUpFailed ==
    /\ pc = "findServices"
    /\ call.query = "getMoreServices"
    /\ last' # last
    /\ last'.query = "getMoreServices"
    /\ ~last'.data

\* the directory was cut short: the last call for a further page gave nothing
Truncated == Scanning /\ pagesSeen >= 1 /\ calls.more = pagesSeen

\* C31 - Truncated directory on a mid-pagination failure.  When the call for
\* a further page returns without data after two failed attempts, the script
\* asks for no other page, the map keeps the records of the pages received,
\* and the script goes on with the strategy the command line selects: the
\* first lookup of that strategy goes out, or the report is written when the
\* map has nothing to look up.  From then on no page is asked for until the
\* report is written or a later call ends the process, and with one lookup per
\* record the map keeps the keys the pages gave it.
TruncatedDirectory ==
    /\ [][FollowUpFailed =>
            /\ Len(last'.tried) = 2
            /\ applications' = applications
            /\ appOrder' = appOrder
            /\ guidsSeen' = guidsSeen
            /\ pagesSeen' = pagesSeen
            /\ calls' = calls
            /\ calls.more = pagesSeen
            /\ Has(argv', "quickScan")
            /\ pc' = (IF argv'.quickScan THEN "findModulesByAccount"
                      ELSE IF appOrder = <<>> THEN "done" ELSE "findModulesByEntity")
            /\ pc' = "findModulesByEntity" =>
                    /\ call'.query = "getModulesInEntity"
                    /\ todo' = appOrder
            /\ pc' = "findModulesByAccount" => call'.query = "getModulesInAccount"
            /\ pc' = "done" => Len(written') = 1
         ]_vars
    /\ [][Truncated =>
            /\ Truncated' \/ pc' \in {"exited", "uncaught"}
            /\ calls' = calls
            /\ pagesSeen' = pagesSeen
         ]_vars
    /\ [](Truncated /\ ~argv.quickScan =>
            /\ DOMAIN applications = guidsSeen
            /\ pc = "done" => /\ Len(written) = 1
                              /\ \A i \in DOMAIN written[1] : written[1][i].guid \in guidsSeen)

\* the second page never came, and the report lists a record of the first
TruncatedAndReported ==
    /\ pc = "done"
    /\ Truncated
    /\ pagesSeen = 1
    /\ ~argv.quickScan
    /\ Len(written) = 1
    /\ Len(written[1]) >= 1
    /\ written[1][1].guid = "gA"

\* C32 - Retry trigger.  The step that answers the first request of a call
\* sends the second request of the same call if and only if the first
\* request neither returned data nor failed on a certificate, whether it
\* raised another exception or was answered without `data`; and no call sends
\* a third request.
RetryTrigger ==
    /\ [](call.attempt <= 2)
    /\ [][Waiting /\ call.attempt = 1 =>
            LET out == IF Len(call'.tried) >= 1 THEN call'.tried[1] ELSE last'.tried[1]
                again == /\ call'.attempt = 2
                         /\ call'.query = call.query
                         /\ call'.variables = call.variables
                         /\ pc' = pc
            IN  again <=> out \notin {"data", "certificate"}
         ]_vars

\* C33 - Reporter purity.  writeResults sends no request and leaves every
\* property of the state it is given as it is: the map, its records and
\* their order, the accounts, the key and the timestamps.  So it is for the
\* state of any moment of the scan handed to writeResults, and once the
\* report is written the state has the properties it had when the scan began.
ReporterPurity ==
    /\ pc \in {"findModulesByEntity", "findModulesByAccount"} =>
        \A includeAllApplications \in BOOLEAN, now \in Elapsed :
            LET after == WriteResults(At(State, now), includeAllApplications) IN
            /\ after.call = call
            /\ after.calls = calls
            /\ after.applications = applications
            /\ after.appOrder = appOrder
            /\ after.accountIds = accountIds
            /\ after.props = props
    /\ pc = "done" =>
            DOMAIN props = DOMAIN Prompted \cup {"scanStarted", "apiKey"}

\* the values joined into the agent version of a runningAgentVersions block:
\* minVersion then maxVersion, without null and '', a value once
VersionRange(versions) ==
    LET usable(v) == v # Null /\ v # ""
        min == versions.minVersion
        max == versions.maxVersion
    IN  CASE usable(min) /\ usable(max) -> IF min = max THEN <<min>> ELSE <<min, max>>
          [] usable(min) -> <<min>>
          [] usable(max) -> <<max>>
          [] OTHER -> <<>>

\* C34 - Agent version range.  Whatever the lookup of a record returns, the
\* record gets an agentVersion only when the response has
\* runningAgentVersions, and, the response having the instances too, it gets
\* then the join of minVersion and maxVersion in that order, without null
\* and '' and a value once: one value when the two are the same.  In the
\* per-entity scan a record has an agentVersion only once it was looked up.
AgentVersionRange ==
    /\ pc = "findModulesByEntity" =>
        \A data \in EntityData :
            LET app == applications[todo[progress + 1]]
                after == EnrichEntity(app, data).app
                carried == /\ Has(data, "actor")
                           /\ Has(data.actor, "entity")
                           /\ Has(data.actor.entity, "runningAgentVersions")
            IN  /\ ~Has(app, "agentVersion")
                /\ Has(after, "agentVersion") => carried
                /\ carried /\ EntityShape(data) =>
                        /\ Has(after, "agentVersion")
                        /\ after.agentVersion =
                                VersionRange(data.actor.entity.runningAgentVersions)
                        /\ SameVersions = data.actor.entity.runningAgentVersions =>
                                Len(after.agentVersion) = 1
    /\ (Has(argv, "quickScan") /\ ~argv.quickScan) =>
        \A g \in DOMAIN applications :
            Has(applications[g], "agentVersion") =>
                /\ g \in DOMAIN evidence
                /\ evidence[g].shaped
                /\ applications[g].agentVersion \in
                        {VersionRange(v) : v \in {SameVersions, TwoVersions, NoVersions}}

\* one record got a single version and another one the two of a range
RangeAndSingleVersion ==
    /\ pc = "done"
    /\ ~argv.quickScan
    /\ DOMAIN applications = {"gA", "gB"}
    /\ Has(applications["gA"], "agentVersion")
    /\ Has(applications["gB"], "agentVersion")
    /\ applications["gA"].agentVersion = <<"7.4.0">>
    /\ applications["gB"].agentVersion = <<"7.4.0", "7.5.0">>

====
